---- MODULE Spec2Model ----
(***************************************************************************)
(* A model of github_report.py: the paginated event fetcher                *)
(* (get_user_events), the event aggregator (summarize_events) and the      *)
(* three report formatters driven by generate_report.                      *)
(*                                                                         *)
(* Text is modelled as sequences of code points where the code looks       *)
(* inside it (repository names are compared, hashes are sliced, messages   *)
(* are split); timestamps are <<day, second-of-day>> pairs that strptime   *)
(* turns into a number of seconds.                                         *)
(***************************************************************************)
EXTENDS Integers, Sequences, FiniteSets, TLC

VARIABLES
    args,           \* main: the parsed command line
    now,            \* the wall clock read by datetime.now(), in seconds
    feed,           \* the remote event feed: a sequence of pages of events
    days_back,      \* argument of get_user_events / generate_report
    output_format,  \* argument of generate_report
    pc,             \* position of the running call
    start_date,     \* generate_report: local start_date
    end_date,       \* generate_report: local end_date
    since_date,     \* get_user_events: local since_date (the cutoff)
    page,           \* get_user_events: loop variable page
    events,         \* the event list being fetched / being summarized
    requests,       \* log of the _make_request calls: page and outcome
    summary,        \* summarize_events: local summary
    idx,            \* summarize_events: number of events processed so far
    report,         \* the value returned by generate_report
    called          \* the methods entered so far

vars == <<args, now, feed, days_back, output_format, pc, start_date, end_date,
          since_date, page, events, requests, summary, idx, report, called>>

(***************************************************************************)
(* Bounds of the model.                                                    *)
(***************************************************************************)
MaxFeedPages == 11   \* longest feed of the fetch specification, in pages
MaxPageLen == 2      \* longest page of the fetch specification, in events
MaxEvents == 2       \* longest input of summarize_events
MaxTicks == 1        \* how often the clock advances during one run

\* the command line of a call that does not come from main
NoArgs == [days |-> <<>>, period |-> "None", format |-> "markdown"]

(***************************************************************************)
(* Generic helpers.                                                        *)
(***************************************************************************)
SeqsUpTo(S, n) == UNION {[1..k -> S] : k \in 0..n}

RECURSIVE Flatten(_)
Flatten(ss) == IF ss = <<>> THEN <<>> ELSE Head(ss) \o Flatten(Tail(ss))

Take(s, n) == SubSeq(s, 1, IF n < Len(s) THEN n ELSE Len(s))

IsPrefix(s, t) == Len(s) <= Len(t) /\ SubSeq(t, 1, Len(s)) = s

(***************************************************************************)
(* Time.  created_at is the text '%Y-%m-%dT%H:%M:%SZ'; it is modelled by   *)
(* the pair <<day, second of the day>> and parsed by strptime.             *)
(***************************************************************************)
SecondsPerDay == 86400

strptime(created_at) == created_at[1] * SecondsPerDay + created_at[2]

timedelta(days) == days * SecondsPerDay

(***************************************************************************)
(* JSON values of optional fields: a number, a string, or absent.          *)
(***************************************************************************)
JInt(n) == <<"int", n>>
JStr(s) == <<"str", s>>
Absent == <<>>

\* dict.get(key, default)
Get(v, default) == IF v = Absent THEN default ELSE v

NA == JStr("N/A")

\* Python truth value of payload.pull_request.merged (True, False, None/absent)
Truthy(v) == v = "True"

(***************************************************************************)
(* Events.  Every event has the same fields; the ones its type does not    *)
(* use stay at their absent value.                                         *)
(***************************************************************************)
Event(id, type, repo, created_at, action, merged, title, number, commits) ==
    [id |-> id, type |-> type, repo |-> [name |-> repo], created_at |-> created_at,
     payload |-> [action |-> action, commits |-> commits,
                  item |-> [merged |-> merged, title |-> title, number |-> number]]]

\* Repository names as code points: "a/x", "a/y", "a", "B".
RepoAX == <<97, 47, 120>>
RepoAY == <<97, 47, 121>>
RepoA == <<97>>
RepoB == <<66>>

PlainEvent(id, created_at) ==
    Event(id, "WatchEvent", RepoAX, created_at, "started", "None", Absent, Absent, <<>>)

(***************************************************************************)
(* The transport: requests.get on users/<name>/events?page=p.  The feed    *)
(* answers page p with its p-th page and with the empty list beyond its    *)
(* end; a failing request (RequestException) makes _make_request return    *)
(* None.                                                                   *)
(***************************************************************************)
None == [none |-> TRUE, json |-> <<>>]

make_request(f, p, fails) ==
    IF fails THEN None
    ELSE [none |-> FALSE, json |-> IF p \in 1..Len(f) THEN f[p] ELSE <<>>]

\* `not page_events`: None and the empty list are both falsy
Falsy_NoneOnly(page_events) == page_events.none
Falsy_ShortPage(page_events) ==
    page_events.none \/ Len(page_events.json) < MaxPageLen
Falsy(page_events) == page_events.none \/ page_events.json = <<>>

(***************************************************************************)
(* _filter_events_by_date: appends the events of the page to events until  *)
(* one is older than since_date; returns whether fetching should continue. *)
(***************************************************************************)
RECURSIVE filter_events_by_date_Skip(_, _, _)
filter_events_by_date_Skip(page_events, since, evs) ==
    IF page_events = <<>> THEN [continue |-> TRUE, events |-> evs]
    ELSE LET event == Head(page_events)
             event_date == strptime(event.created_at)
         IN IF event_date < since
            THEN filter_events_by_date_Skip(Tail(page_events), since, evs)
            ELSE filter_events_by_date_Skip(Tail(page_events), since, Append(evs, event))

\* the date test left out
filter_events_by_date_KeepAll(page_events, since, evs) ==
    [continue |-> TRUE, events |-> evs \o page_events]

RECURSIVE filter_events_by_date(_, _, _)
filter_events_by_date(page_events, since, evs) ==
    IF page_events = <<>> THEN [continue |-> TRUE, events |-> evs]
    ELSE LET event == Head(page_events)
             event_date == strptime(event.created_at)
         IN IF event_date < since
            THEN [continue |-> FALSE, events |-> evs]
            ELSE filter_events_by_date(Tail(page_events), since, Append(evs, event))

\* range(1, 11)
PageRange_OffByOne == 1..11
PageRange == 1..10

FirstPage == 1

(***************************************************************************)
(* get_user_events.                                                        *)
(***************************************************************************)
InitialSummary ==
    [commits |-> 0, pull_requests_opened |-> 0, pull_requests_merged |-> 0,
     pull_requests_reviewed |-> 0, issues_opened |-> 0, issues_closed |-> 0,
     comments |-> 0, repos |-> {}, commit_details |-> <<>>, pr_details |-> <<>>,
     issue_details |-> <<>>, review_details |-> <<>>]

\* lines 72-73
GetUserEventsStart ==
    /\ pc = "get_user_events"
    /\ since_date' = now - timedelta(days_back)
    /\ events' = <<>>
    /\ page' = FirstPage
    /\ called' = called \cup {"get_user_events"}
    /\ pc' = IF FirstPage \in PageRange THEN "fetch" ELSE "fetched"
    /\ UNCHANGED <<args, now, feed, days_back, output_format, start_date, end_date,
                   requests, summary, idx, report>>

\* lines 75-84: one iteration of the page loop
FetchPage ==
    /\ pc = "fetch"
    /\ \E fails \in BOOLEAN :
         LET page_events == make_request(feed, page, fails)
             filtered == filter_events_by_date(page_events.json, since_date, events)
         IN /\ requests' = Append(requests, [page |-> page, failed |-> fails])
            /\ IF Falsy(page_events)
               THEN /\ pc' = "fetched"
                    /\ UNCHANGED <<events, page>>
               ELSE /\ events' = filtered.events
                    /\ IF filtered.continue /\ page + 1 \in PageRange
                       THEN pc' = "fetch" /\ page' = page + 1
                       ELSE pc' = "fetched" /\ UNCHANGED page
    /\ UNCHANGED <<args, now, feed, days_back, output_format, start_date, end_date,
                   since_date, summary, idx, report, called>>

(***************************************************************************)
(* The fetch specification: get_user_events called on a feed of up to      *)
(* MaxFeedPages pages.  Every page is a full page of events newer than     *)
(* any cutoff, except one page whose length and timestamps are arbitrary.  *)
(***************************************************************************)
ClockStart == 8 * SecondsPerDay + 1

DaysBackValues == {1, 7}

Timestamps == {<<1, 1>>, <<7, 0>>, <<7, 1>>, <<7, 2>>}

Fresh == <<7, 2>>

MkPage(p, stamps) == [i \in 1..Len(stamps) |-> PlainEvent(<<p, i>>, stamps[i])]

FullFreshPage(p) == MkPage(p, [i \in 1..MaxPageLen |-> Fresh])

FetchFeeds ==
    {[p \in 1..n |-> FullFreshPage(p)] : n \in 0..MaxFeedPages}
    \cup
    {[p \in 1..n |-> IF p = sp THEN MkPage(p, stamps) ELSE FullFreshPage(p)] :
        <<n, sp, stamps>> \in
            {t \in (1..MaxFeedPages) \X (1..MaxFeedPages) \X SeqsUpTo(Timestamps, MaxPageLen) :
                t[2] <= t[1]}}

InitFetch ==
    /\ args = NoArgs
    /\ now = ClockStart
    /\ feed \in FetchFeeds
    /\ days_back \in DaysBackValues
    /\ output_format = "markdown"
    /\ pc = "get_user_events"
    /\ start_date = 0
    /\ end_date = 0
    /\ since_date = 0
    /\ page = 0
    /\ events = <<>>
    /\ requests = <<>>
    /\ summary = InitialSummary
    /\ idx = 0
    /\ report = <<>>
    /\ called = {}

NextFetch == GetUserEventsStart \/ FetchPage

SpecFetch == InitFetch /\ [][NextFetch]_vars

\* get_user_events is synchronous straight-line code: a call that can take
\* its next step takes it
SpecFetchLive == InitFetch /\ [][NextFetch]_vars /\ WF_vars(NextFetch)

(***************************************************************************)
(* summarize_events and its handlers.                                      *)
(***************************************************************************)
Newline == 10

\* message.split('\n')[0]
RECURSIVE FirstLine(_)
FirstLine(message) ==
    IF message = <<>> \/ Head(message) = Newline THEN <<>>
    ELSE <<Head(message)>> \o FirstLine(Tail(message))

ShaLen == 7

\* lines 115-125
process_push_event_Prepend(event, repo_name, s) ==
    LET commits == Get(event.payload.commits, <<>>)
    IN [s EXCEPT
          !.commits = @ + Len(commits),
          !.commit_details =
              [i \in 1..Len(commits) |->
                  [repo |-> repo_name,
                   sha |-> Take(commits[i].sha, ShaLen),
                   message |-> FirstLine(commits[i].message),
                   timestamp |-> event.created_at]] \o @]
process_push_event(event, repo_name, s) ==
    LET commits == Get(event.payload.commits, <<>>)
    IN [s EXCEPT
          !.commits = @ + Len(commits),
          !.commit_details = @ \o
              [i \in 1..Len(commits) |->
                  [repo |-> repo_name,
                   sha |-> Take(commits[i].sha, ShaLen),
                   message |-> FirstLine(commits[i].message),
                   timestamp |-> event.created_at]]]

\* lines 127-131
add_item_details_NoCount(s, counter_key, details_key, item_data) ==
    [s EXCEPT ![details_key] = Append(@, item_data)]
add_item_details(s, counter_key, details_key, item_data) ==
    [s EXCEPT ![counter_key] = @ + 1, ![details_key] = Append(@, item_data)]

\* lines 138-143 and 168-173
ItemData(event, repo_name, item) ==
    [repo |-> repo_name,
     title |-> Get(item.title, NA),
     number |-> Get(item.number, NA),
     timestamp |-> event.created_at]

WithAction(item_data, action) == [action |-> action] @@ item_data

\* line 148: action == 'closed' and pr.get('merged')
IsMerge_AnyClose(action, pr) == action = "closed"
IsMerge(action, pr) == action = "closed" /\ Truthy(pr.merged)

\* lines 133-150
process_pr_event(event, repo_name, s) ==
    LET action == event.payload.action
        pr == event.payload.item
        item_data == ItemData(event, repo_name, pr)
    IN IF action = "opened"
       THEN add_item_details(s, "pull_requests_opened", "pr_details",
                             WithAction(item_data, "opened"))
       ELSE IF IsMerge(action, pr)
       THEN add_item_details(s, "pull_requests_merged", "pr_details",
                             WithAction(item_data, "merged"))
       ELSE s

\* lines 152-161
process_review_event(event, repo_name, s) ==
    LET pr == event.payload.item
    IN [s EXCEPT
          !.pull_requests_reviewed = @ + 1,
          !.review_details = Append(@,
              [repo |-> repo_name,
               pr_title |-> Get(pr.title, NA),
               pr_number |-> Get(pr.number, NA),
               timestamp |-> event.created_at])]

\* lines 163-180
process_issue_event_AnyAction(event, repo_name, s) ==
    LET action == event.payload.action
        issue == event.payload.item
        item_data == ItemData(event, repo_name, issue)
    IN IF action = "opened"
       THEN add_item_details(s, "issues_opened", "issue_details",
                             WithAction(item_data, "opened"))
       ELSE add_item_details(s, "issues_closed", "issue_details",
                             WithAction(item_data, "closed"))
process_issue_event(event, repo_name, s) ==
    LET action == event.payload.action
        issue == event.payload.item
        item_data == ItemData(event, repo_name, issue)
    IN IF action = "opened"
       THEN add_item_details(s, "issues_opened", "issue_details",
                             WithAction(item_data, "opened"))
       ELSE IF action = "closed"
       THEN add_item_details(s, "issues_closed", "issue_details",
                             WithAction(item_data, "closed"))
       ELSE s

\* lines 204-209: the keys of event_handlers
HandledTypes ==
    {"PushEvent", "PullRequestEvent", "PullRequestReviewEvent", "IssuesEvent"}

\* lines 218-219
CommentTypes ==
    {"IssueCommentEvent", "CommitCommentEvent", "PullRequestReviewCommentEvent"}

event_handlers(event_type, event, repo_name, s) ==
    CASE event_type = "PushEvent" -> process_push_event(event, repo_name, s)
      [] event_type = "PullRequestEvent" -> process_pr_event(event, repo_name, s)
      [] event_type = "PullRequestReviewEvent" -> process_review_event(event, repo_name, s)
      [] event_type = "IssuesEvent" -> process_issue_event(event, repo_name, s)

\* line 214: summary['repos'].add(repo_name)
AddRepo_HandledOnly(s, event_type, repo_name) ==
    IF event_type \in HandledTypes \cup CommentTypes
    THEN [s EXCEPT !.repos = @ \cup {repo_name}]
    ELSE s
AddRepo(s, event_type, repo_name) == [s EXCEPT !.repos = @ \cup {repo_name}]

\* lines 212-220: the body of the loop over events
summarize_event(event, s) ==
    LET event_type == event.type
        repo_name == event.repo.name
        s1 == AddRepo(s, event_type, repo_name)
    IN IF event_type \in HandledTypes
       THEN event_handlers(event_type, event, repo_name, s1)
       ELSE IF event_type \in CommentTypes
       THEN [s1 EXCEPT !.comments = @ + 1]
       ELSE s1

\* lines 189-209
SummarizeStart ==
    /\ pc = "summarize_events"
    /\ summary' = InitialSummary
    /\ idx' = 0
    /\ called' = called \cup {"summarize_events"}
    /\ pc' = "summarize_loop"
    /\ UNCHANGED <<args, now, feed, days_back, output_format, start_date, end_date,
                   since_date, page, events, requests, report>>

\* lines 211-220: one iteration of the loop
SummarizeEvent ==
    /\ pc = "summarize_loop"
    /\ idx < Len(events)
    /\ summary' = summarize_event(events[idx + 1], summary)
    /\ idx' = idx + 1
    /\ UNCHANGED <<args, now, feed, days_back, output_format, pc, start_date, end_date,
                   since_date, page, events, requests, report, called>>

\* line 222
SummarizeReturn ==
    /\ pc = "summarize_loop"
    /\ idx = Len(events)
    /\ pc' = "summarized"
    /\ UNCHANGED <<args, now, feed, days_back, output_format, start_date, end_date,
                   since_date, page, events, requests, summary, idx, report, called>>

(***************************************************************************)
(* The aggregation specification: summarize_events called on every         *)
(* sequence of up to MaxEvents events drawn from SummaryEvents.            *)
(***************************************************************************)
Commit1 == [sha |-> <<1, 2, 3, 4, 5, 6, 7, 8, 9>>, message |-> <<102, 105, 120, 10, 98>>]
Commit2 == [sha |-> <<9, 8, 7, 6, 5, 4, 3, 2, 1>>, message |-> <<97, 100, 100>>]

Push(repo, commits) ==
    Event(0, "PushEvent", repo, Fresh, "pushed", "None", Absent, Absent, commits)

PullRequest(repo, action, merged, title, number) ==
    Event(0, "PullRequestEvent", repo, Fresh, action, merged, title, number, <<>>)

Review(repo, title, number) ==
    Event(0, "PullRequestReviewEvent", repo, Fresh, "created", "None", title, number, <<>>)

Issue(repo, action, title, number) ==
    Event(0, "IssuesEvent", repo, Fresh, action, "None", title, number, <<>>)

Other(repo, type) ==
    Event(0, type, repo, Fresh, "created", "None", Absent, Absent, <<>>)

SummaryEvents ==
    { Push(RepoAX, <<>>), Push(RepoAX, <<Commit1>>), Push(RepoAX, <<Commit1, Commit2>>),
      PullRequest(RepoAX, "opened", "False", JStr("Fix bug"), JInt(5)),
      PullRequest(RepoAX, "closed", "True", JStr("Fix bug"), JInt(5)),
      PullRequest(RepoAX, "closed", "False", JStr("Fix bug"), JInt(5)),
      PullRequest(RepoAX, "closed", "None", Absent, Absent),
      PullRequest(RepoAX, "reopened", "False", JStr("Fix bug"), JInt(5)),
      Review(RepoAX, JStr("Fix bug"), JInt(5)),
      Issue(RepoAX, "opened", JStr("Stale"), JInt(9)),
      Issue(RepoAX, "closed", JStr("Stale"), JInt(9)),
      Issue(RepoAX, "reopened", Absent, Absent),
      Other(RepoAX, "IssueCommentEvent"), Other(RepoAX, "CommitCommentEvent"),
      Other(RepoAX, "PullRequestReviewCommentEvent"), Other(RepoAX, "WatchEvent"),
      Push(RepoAY, <<Commit2>>),
      PullRequest(RepoAY, "opened", "False", JStr("Fix bug"), JInt(5)),
      Issue(RepoAY, "closed", JStr("Stale"), JInt(9)),
      Other(RepoAY, "WatchEvent"),
      Other(RepoA, "WatchEvent"), Other(RepoB, "ForkEvent") }

\* the i-th event of an input: its id and its timestamp (newest first)
Stamp(event, i) == [event EXCEPT !.id = i, !.created_at = <<7, 2 + MaxEvents + 1 - i>>]

SummaryInputs ==
    {[i \in 1..Len(es) |-> Stamp(es[i], i)] : es \in SeqsUpTo(SummaryEvents, MaxEvents)}

InitSum ==
    /\ args = NoArgs
    /\ now = ClockStart
    /\ feed = <<>>
    /\ days_back = 7
    /\ output_format = "markdown"
    /\ pc = "summarize_events"
    /\ start_date = 0
    /\ end_date = 0
    /\ since_date = 0
    /\ page = 0
    /\ events \in SummaryInputs
    /\ requests = <<>>
    /\ summary = InitialSummary
    /\ idx = 0
    /\ report = <<>>
    /\ called = {}

NextSum == SummarizeStart \/ SummarizeEvent \/ SummarizeReturn

SpecSum == InitSum /\ [][NextSum]_vars

(***************************************************************************)
(* The report formatters.  A report is the sequence of its lines (the      *)
(* elements of the list that '\n'.join makes a string of; for HTML the     *)
(* elements of the document in document order); a line is its kind and     *)
(* the values the code puts into it.                                       *)
(***************************************************************************)
Line(kind, val) == [kind |-> kind, val |-> val]

Username == "octocat"
Company == "your company"

\* strftime('%B %d, %Y'): the day
FormatDay(t) == t \div SecondsPerDay

SecondsPerMinute == 60

\* strftime('... %I:%M %p'): the day and the minute of the day
FormatMinute(t) == <<t \div SecondsPerDay, (t % SecondsPerDay) \div SecondsPerMinute>>

\* the calendar: day 0 is January 1st of 2026, days before it are negative
IsLeapYear(year) == year % 4 = 0 /\ (year % 100 # 0 \/ year % 400 = 0)

MonthLengths(year) ==
    <<31, IF IsLeapYear(year) THEN 29 ELSE 28, 31, 30, 31, 30, 31, 31, 30, 31, 30, 31>>

YearLength(year) == IF IsLeapYear(year) THEN 366 ELSE 365

\* <<month, day of the month>> of the day-th day (from 0) of a year
RECURSIVE MonthDayIn(_, _, _)
MonthDayIn(day, month, lengths) ==
    IF day < lengths[month] THEN <<month, day + 1>>
    ELSE MonthDayIn(day - lengths[month], month + 1, lengths)

RECURSIVE MonthDayFrom(_, _)
MonthDayFrom(day, year) ==
    IF day < 0 THEN MonthDayFrom(day + YearLength(year - 1), year - 1)
    ELSE IF day < YearLength(year) THEN MonthDayIn(day, 1, MonthLengths(year))
    ELSE MonthDayFrom(day - YearLength(year), year + 1)

\* strftime('%b %d, %I:%M %p'): month, day of the month and minute of the
\* day, without the year
FormatMonthDayMinute(t) ==
    LET md == MonthDayFrom(t \div SecondsPerDay, 2026)
    IN <<md[1], md[2], (t % SecondsPerDay) \div SecondsPerMinute>>

\* str.__lt__: code-point lexicographic order
RECURSIVE LexLess(_, _)
LexLess(a, b) ==
    IF a = <<>> THEN b # <<>>
    ELSE IF b = <<>> THEN FALSE
    ELSE IF Head(a) = Head(b) THEN LexLess(Tail(a), Tail(b))
    ELSE Head(a) < Head(b)

\* sorted(names)
RECURSIVE sorted_Reversed(_)
sorted_Reversed(names) ==
    IF names = {} THEN <<>>
    ELSE LET m == CHOOSE x \in names : \A y \in names \ {x} : LexLess(y, x)
         IN <<m>> \o sorted_Reversed(names \ {m})

RECURSIVE sorted(_)
sorted(names) ==
    IF names = {} THEN <<>>
    ELSE LET m == CHOOSE x \in names : \A y \in names \ {x} : LexLess(x, y)
         IN <<m>> \o sorted(names \ {m})

\* lines 255-263
add_markdown_header(start, end) ==
    << Line("h1", "GitHub Activity Report"),
       Line("developer", Username),
       Line("period", <<FormatDay(start), FormatDay(end)>>),
       Line("generated", FormatMinute(end)),
       Line("rule", "---") >>

\* lines 265-277
add_markdown_summary(s) ==
    << Line("heading", "Executive Summary"),
       Line("metric", <<"Total Commits", s.commits>>),
       Line("metric", <<"Pull Requests Opened", s.pull_requests_opened>>),
       Line("metric", <<"Pull Requests Merged", s.pull_requests_merged>>),
       Line("metric", <<"Pull Requests Reviewed", s.pull_requests_reviewed>>),
       Line("metric", <<"Issues Opened", s.issues_opened>>),
       Line("metric", <<"Issues Closed", s.issues_closed>>),
       Line("metric", <<"Comments Made", s.comments>>),
       Line("metric", <<"Active Repositories", Cardinality(s.repos)>>) >>

\* lines 279-283
add_markdown_repos(repos) ==
    IF repos = {} THEN <<>>
    ELSE LET names == sorted(repos)
         IN <<Line("heading", "Active Repositories")>>
            \o [i \in 1..Len(names) |-> Line("repo", names[i])]

\* line 297: commits_by_repo[repo][:20]
CommitsShown == 20

\* lines 291-293: commits_by_repo[repo]
CommitsOf(commit_details, repo) ==
    LET InRepo(commit) == commit.repo = repo
    IN SelectSeq(commit_details, InRepo)

\* lines 296-300: one repository of the commits section
MarkdownRepoCommits_NoCap(commit_details, repo) ==
    LET shown == CommitsOf(commit_details, repo)
    IN <<Line("subheading", repo)>>
       \o [i \in 1..Len(shown) |->
              Line("commit", <<shown[i].sha, shown[i].message,
                               FormatMonthDayMinute(strptime(shown[i].timestamp))>>)]
MarkdownRepoCommits(commit_details, repo) ==
    LET shown == Take(CommitsOf(commit_details, repo), CommitsShown)
    IN <<Line("subheading", repo)>>
       \o [i \in 1..Len(shown) |->
              Line("commit", <<shown[i].sha, shown[i].message,
                               FormatMonthDayMinute(strptime(shown[i].timestamp))>>)]

\* lines 285-301
add_markdown_commits(commit_details) ==
    IF commit_details = <<>> THEN <<>>
    ELSE LET names == sorted({commit_details[i].repo : i \in 1..Len(commit_details)})
         IN <<Line("heading", "Commits")>>
            \o Flatten([i \in 1..Len(names) |->
                           MarkdownRepoCommits(commit_details, names[i])])

\* the characters of an action tag, as code points (the action names of the
\* pull-request and issue events: opened, closed, merged, reopened, edited, review_requested)
ActionText(action) ==
    CASE action = "opened" -> <<111, 112, 101, 110, 101, 100>>
      [] action = "closed" -> <<99, 108, 111, 115, 101, 100>>
      [] action = "merged" -> <<109, 101, 114, 103, 101, 100>>
      [] action = "reopened" -> <<114, 101, 111, 112, 101, 110, 101, 100>>
      [] action = "edited" -> <<101, 100, 105, 116, 101, 100>>
      [] action = "review_requested" -> <<114, 101, 118, 105, 101, 119, 95, 114, 101, 113, 117, 101, 115, 116, 101, 100>>

IsLower(c) == c \in 97..122
IsUpper(c) == c \in 65..90

\* str.title() on ASCII text: the first letter of every run of letters in
\* upper case, the other letters of the run in lower case
RECURSIVE TitleFrom(_, _)
TitleFrom(text, after_letter) ==
    IF text = <<>> THEN <<>>
    ELSE LET c == Head(text)
             letter == IsLower(c) \/ IsUpper(c)
             out == IF ~letter THEN c
                    ELSE IF after_letter THEN (IF IsUpper(c) THEN c + 32 ELSE c)
                    ELSE (IF IsLower(c) THEN c - 32 ELSE c)
         IN <<out>> \o TitleFrom(Tail(text), letter)

\* item['action'].title()
TitleCase(action) == TitleFrom(ActionText(action), FALSE)

\* emoji_map.get(action, default)
EmojiGet(emoji_map, action, default) ==
    IF action \in DOMAIN emoji_map THEN emoji_map[action] ELSE default

\* lines 303-312
format_markdown_item(item, item_type, emoji_map) ==
    << Line("item", <<EmojiGet(emoji_map, item.action, "bullet"), TitleCase(item.action),
                      item_type, item.number, item.title>>),
       Line("item_repo", item.repo),
       Line("item_date", FormatMinute(strptime(item.timestamp))) >>

\* lines 314-323
add_markdown_prs(pr_details) ==
    IF pr_details = <<>> THEN <<>>
    ELSE LET emoji_map == [opened |-> "green circle", merged |-> "purple circle"]
         IN <<Line("heading", "Pull Requests")>>
            \o Flatten([i \in 1..Len(pr_details) |->
                           format_markdown_item(pr_details[i], "PR", emoji_map)])

\* lines 325-334
add_markdown_issues(issue_details) ==
    IF issue_details = <<>> THEN <<>>
    ELSE LET emoji_map == [opened |-> "blue circle", closed |-> "check mark"]
         IN <<Line("heading", "Issues")>>
            \o Flatten([i \in 1..Len(issue_details) |->
                           format_markdown_item(issue_details[i], "Issue", emoji_map)])

\* lines 336-349
add_markdown_reviews(review_details) ==
    IF review_details = <<>> THEN <<>>
    ELSE <<Line("heading", "Code Reviews")>>
         \o Flatten([i \in 1..Len(review_details) |->
               << Line("review", <<review_details[i].pr_number, review_details[i].pr_title>>),
                  Line("item_repo", review_details[i].repo),
                  Line("item_date", FormatMinute(strptime(review_details[i].timestamp))) >>])

\* lines 351-364
format_markdown_report_IssuesFirst(start, end, s, company) ==
    add_markdown_header(start, end)
    \o add_markdown_summary(s)
    \o add_markdown_repos(s.repos)
    \o add_markdown_commits(s.commit_details)
    \o add_markdown_issues(s.issue_details)
    \o add_markdown_prs(s.pr_details)
    \o add_markdown_reviews(s.review_details)
    \o <<Line("rule", "---"), Line("footer", company)>>
format_markdown_report(start, end, s, company) ==
    add_markdown_header(start, end)
    \o add_markdown_summary(s)
    \o add_markdown_repos(s.repos)
    \o add_markdown_commits(s.commit_details)
    \o add_markdown_prs(s.pr_details)
    \o add_markdown_issues(s.issue_details)
    \o add_markdown_reviews(s.review_details)
    \o <<Line("rule", "---"), Line("footer", company)>>

\* lines 366-400
format_text_report(start, end, s, company) ==
    << Line("rule", "="), Line("h1", "GITHUB ACTIVITY REPORT"), Line("rule", "="),
       Line("developer", Username),
       Line("period", <<FormatDay(start), FormatDay(end)>>),
       Line("generated", FormatMinute(end)),
       Line("rule", "-"),
       Line("heading", "EXECUTIVE SUMMARY"), Line("rule", "-"),
       Line("metric", <<"Total Commits", s.commits>>),
       Line("metric", <<"Pull Requests Opened", s.pull_requests_opened>>),
       Line("metric", <<"Pull Requests Merged", s.pull_requests_merged>>),
       Line("metric", <<"Pull Requests Reviewed", s.pull_requests_reviewed>>),
       Line("metric", <<"Issues Opened", s.issues_opened>>),
       Line("metric", <<"Issues Closed", s.issues_closed>>),
       Line("metric", <<"Comments Made", s.comments>>),
       Line("metric", <<"Active Repositories", Cardinality(s.repos)>>) >>
    \o (IF s.repos = {} THEN <<>>
        ELSE LET names == sorted(s.repos)
             IN <<Line("rule", "-"), Line("heading", "ACTIVE REPOSITORIES"),
                  Line("rule", "-")>>
                \o [i \in 1..Len(names) |-> Line("repo", names[i])])
    \o <<Line("rule", "="), Line("footer", company), Line("rule", "=")>>

\* lines 599-617
get_html_summary(s) ==
    << Line("heading", "Executive Summary"),
       Line("metric", <<"Total Commits", s.commits>>),
       Line("metric", <<"PRs Opened", s.pull_requests_opened>>),
       Line("metric", <<"PRs Merged", s.pull_requests_merged>>),
       Line("metric", <<"PRs Reviewed", s.pull_requests_reviewed>>),
       Line("metric", <<"Issues Opened", s.issues_opened>>),
       Line("metric", <<"Issues Closed", s.issues_closed>>),
       Line("metric", <<"Comments", s.comments>>),
       Line("metric", <<"Active Repos", Cardinality(s.repos)>>) >>

\* lines 619-661
format_html_report(start, end, s, company) ==
    LET names == sorted(s.repos)
    IN << Line("title", Username), Line("style", "styles"),
          Line("h1", "GitHub Activity Report"),
          Line("developer", Username),
          Line("period", <<FormatDay(start), FormatDay(end)>>),
          Line("generated", FormatMinute(end)) >>
       \o get_html_summary(s)
       \o <<Line("heading", "Active Repositories")>>
       \o [i \in 1..Len(names) |-> Line("repo", names[i])]
       \o <<Line("footer", company)>>

(***************************************************************************)
(* generate_report.                                                        *)
(***************************************************************************)
\* line 244
NoActivity == <<Line("text", "No GitHub activity found for the specified period.")>>

\* line 243: `not events`
NotEvents_Never(evs) == FALSE
NotEvents(evs) == evs = <<>>

\* lines 248-253
Formatter(format) ==
    IF format = "markdown" THEN "_format_markdown_report"
    ELSE IF format = "html" THEN "_format_html_report"
    ELSE "_format_text_report"

Format(format, start, end, s, company) ==
    IF format = "markdown" THEN format_markdown_report(start, end, s, company)
    ELSE IF format = "html" THEN format_html_report(start, end, s, company)
    ELSE format_text_report(start, end, s, company)

\* lines 237-241
GenerateReportStart ==
    /\ pc = "generate_report"
    /\ end_date' = now
    /\ start_date' = now - timedelta(days_back)
    /\ called' = called \cup {"generate_report"}
    /\ pc' = "get_user_events"
    /\ UNCHANGED <<args, now, feed, days_back, output_format, since_date, page, events,
                   requests, summary, idx, report>>

\* datetime.now() advances between the two reads of the clock
Tick ==
    /\ pc = "get_user_events"
    /\ "generate_report" \in called
    /\ now < end_date + MaxTicks
    /\ now' = now + 1
    /\ UNCHANGED <<args, feed, days_back, output_format, pc, start_date, end_date,
                   since_date, page, events, requests, summary, idx, report, called>>

\* lines 241-246: get_user_events has returned
GenerateReportCheck ==
    /\ pc = "fetched"
    /\ IF NotEvents(events)
       THEN report' = NoActivity /\ pc' = "done"
       ELSE pc' = "summarize_events" /\ UNCHANGED report
    /\ UNCHANGED <<args, now, feed, days_back, output_format, start_date, end_date,
                   since_date, page, events, requests, summary, idx, called>>

\* lines 246-253: summarize_events has returned
GenerateReportFormat ==
    /\ pc = "summarized"
    /\ report' = Format(output_format, start_date, end_date, summary, Company)
    /\ called' = called \cup {Formatter(output_format)}
    /\ pc' = "done"
    /\ UNCHANGED <<args, now, feed, days_back, output_format, start_date, end_date,
                   since_date, page, events, requests, summary, idx>>

(***************************************************************************)
(* The report specification: generate_report on a feed of one page of up   *)
(* to MaxReportEvents events, the last of which may be older than the      *)
(* cutoff, in each output format.                                          *)
(***************************************************************************)
MaxReportEvents == 3

\* commits of the one push that exceeds what the commits section shows
LongPushLen == 21

LongPush ==
    Push(RepoAX, [i \in 1..LongPushLen |->
                     [sha |-> <<i, 0, 0, 0, 0, 0, 0, 0>>, message |-> <<100 + i>>]])

ReportEvents ==
    { Push(RepoAX, <<Commit1, Commit2>>),
      Push(RepoAY, <<Commit2>>),
      PullRequest(RepoAY, "opened", "False", JStr("Fix bug"), JInt(5)),
      Issue(RepoAX, "closed", JStr("Stale"), JInt(9)),
      Review(RepoA, JStr("Fix bug"), JInt(5)),
      Other(RepoB, "WatchEvent") }

\* the pushes of the feeds that hold the long push
LongPushEvents ==
    {LongPush, Push(RepoAX, <<Commit1, Commit2>>), Push(RepoAY, <<Commit2>>)}

LastStamps == {<<7, 0>>, <<7, 1>>, <<7, 3>>}

\* the page made of the events es: newest first, the last one stamped `last`
ReportPage(es, last) ==
    [i \in 1..Len(es) |->
        [es[i] EXCEPT !.id = i,
                      !.created_at = IF i = Len(es) THEN last ELSE <<7, 3>>]]

ReportFeeds ==
    {<<>>} \cup
    {<<ReportPage(t[1], t[2])>> :
        t \in ((SeqsUpTo(ReportEvents, MaxReportEvents)
                   \cup SeqsUpTo(LongPushEvents, MaxReportEvents)) \ {<<>>})
              \X LastStamps}

OutputFormats == {"markdown", "text", "html"}

Init ==
    /\ args = NoArgs
    /\ now = ClockStart
    /\ feed \in ReportFeeds
    /\ days_back = 1
    /\ output_format \in OutputFormats
    /\ pc = "generate_report"
    /\ start_date = 0
    /\ end_date = 0
    /\ since_date = 0
    /\ page = 0
    /\ events = <<>>
    /\ requests = <<>>
    /\ summary = InitialSummary
    /\ idx = 0
    /\ report = <<>>
    /\ called = {}

Next ==
    \/ GenerateReportStart
    \/ Tick
    \/ GetUserEventsStart
    \/ FetchPage
    \/ GenerateReportCheck
    \/ SummarizeStart
    \/ SummarizeEvent
    \/ SummarizeReturn
    \/ GenerateReportFormat

Spec == Init /\ [][Next]_vars

(***************************************************************************)
(* main and calculate_days.  args.days is the value argparse gives --days: *)
(* absent (None) or an integer; args.period is "None" or one of the        *)
(* choices of --period.                                                    *)
(***************************************************************************)
\* lines 752-758
period_map == [day |-> 1, 3days |-> 3, week |-> 7, 2weeks |-> 14, month |-> 30]

\* line 765
DefaultDays == 7

\* line 760: `if args.days:` (None and 0 are falsy)
DaysGiven(days) == days # Absent /\ days[2] # 0

\* lines 750-765
calculate_days(a) ==
    IF DaysGiven(a.days) THEN a.days[2]
    ELSE IF a.period # "None" THEN period_map[a.period]
    ELSE DefaultDays

\* lines 797-800 and 808: main parses the command line and computes days
MainCalculateDays ==
    /\ pc = "main"
    /\ days_back' = calculate_days(args)
    /\ output_format' = args.format
    /\ pc' = "main_days"
    /\ UNCHANGED <<args, now, feed, start_date, end_date, since_date, page, events,
                   requests, summary, idx, report, called>>

(***************************************************************************)
(* The command-line specification: main on every combination of --days     *)
(* (absent or -1..MaxExplicitDays), --period and --format.                 *)
(***************************************************************************)
MaxExplicitDays == 3

Periods == {"day", "3days", "week", "2weeks", "month"}

ArgsValues ==
    [days : {Absent} \cup {JInt(n) : n \in -1..MaxExplicitDays},
     period : {"None"} \cup Periods,
     format : OutputFormats]

InitMain ==
    /\ args \in ArgsValues
    /\ now = ClockStart
    /\ feed = <<>>
    /\ days_back = 0
    /\ output_format = "markdown"
    /\ pc = "main"
    /\ start_date = 0
    /\ end_date = 0
    /\ since_date = 0
    /\ page = 0
    /\ events = <<>>
    /\ requests = <<>>
    /\ summary = InitialSummary
    /\ idx = 0
    /\ report = <<>>
    /\ called = {}

NextMain == MainCalculateDays

SpecMain == InitMain /\ [][NextMain]_vars

(***************************************************************************)
(* Properties of summarize_events.                                         *)
(***************************************************************************)
CountAction(details, action) ==
    Cardinality({i \in 1..Len(details) : details[i].action = action})

Counters(s) ==
    <<s.commits, s.pull_requests_opened, s.pull_requests_merged,
      s.pull_requests_reviewed, s.issues_opened, s.issues_closed, s.comments>>

Details(s) == <<s.commit_details, s.pr_details, s.issue_details, s.review_details>>

\* C1: at every point of summarize_events each counter equals the number of
\* its detail records: commits and reviews against the whole list, pull
\* requests and issues against the records tagged with the counter's action.
C1_CountersMatchDetails ==
    /\ summary.commits = Len(summary.commit_details)
    /\ summary.pull_requests_opened = CountAction(summary.pr_details, "opened")
    /\ summary.pull_requests_merged = CountAction(summary.pr_details, "merged")
    /\ summary.pull_requests_opened + summary.pull_requests_merged
         = Len(summary.pr_details)
    /\ summary.issues_opened = CountAction(summary.issue_details, "opened")
    /\ summary.issues_closed = CountAction(summary.issue_details, "closed")
    /\ summary.issues_opened + summary.issues_closed = Len(summary.issue_details)
    /\ summary.pull_requests_reviewed = Len(summary.review_details)

\* a push of two commits and a merged pull request have been summarized
C1_Witness ==
    /\ pc = "summarized"
    /\ summary.commits = 2
    /\ Len(summary.commit_details) = 2
    /\ summary.pull_requests_merged = 1
    /\ Len(summary.pr_details) = 1

\* the loop of summarize_events has just processed the event `event`
Processed(event) ==
    /\ pc = "summarize_loop"
    /\ idx' = idx + 1
    /\ event = events[idx + 1]

\* details' is details with one record appended, tagged `action`
AppendedOne(details, details2, action) ==
    /\ Len(details2) = Len(details) + 1
    /\ SubSeq(details2, 1, Len(details)) = details
    /\ details2[Len(details2)].action = action

\* C6: a pull-request event 'closed' and not merged changes no counter and
\* no detail list; 'closed' and merged adds 1 to pull_requests_merged only
\* and appends one pr_details record tagged 'merged'; 'opened' adds 1 to
\* pull_requests_opened only and appends one record tagged 'opened'.
C6_PullRequestAsymmetry ==
    [][\A event \in {events[i] : i \in 1..Len(events)} :
         (Processed(event) /\ event.type = "PullRequestEvent") =>
            LET action == event.payload.action
                merged == event.payload.item.merged = "True"
                c == Counters(summary)
                d == Details(summary)
            IN /\ (action = "closed" /\ ~merged) =>
                     /\ Counters(summary') = c
                     /\ Details(summary') = d
               /\ (action = "closed" /\ merged) =>
                     /\ Counters(summary') = [c EXCEPT ![3] = @ + 1]
                     /\ AppendedOne(d[2], summary'.pr_details, "merged")
                     /\ Details(summary') = [d EXCEPT ![2] = summary'.pr_details]
               /\ action = "opened" =>
                     /\ Counters(summary') = [c EXCEPT ![2] = @ + 1]
                     /\ AppendedOne(d[2], summary'.pr_details, "opened")
                     /\ Details(summary') = [d EXCEPT ![2] = summary'.pr_details]
      ]_vars

\* a closed, unmerged pull request and then a closed, merged one were
\* processed: only the second left a record
C6_Witness ==
    /\ pc = "summarize_loop"
    /\ idx = 2
    /\ events[1].type = "PullRequestEvent"
    /\ events[1].payload.action = "closed"
    /\ events[1].payload.item.merged = "False"
    /\ events[2].type = "PullRequestEvent"
    /\ events[2].payload.action = "closed"
    /\ events[2].payload.item.merged = "True"
    /\ summary.pull_requests_merged = 1
    /\ Len(summary.pr_details) = 1
    /\ summary.pr_details[1].action = "merged"

\* C8: summarize_events returns as repos exactly the repository names of
\* its input events, whatever their type or action; an event whose type is
\* neither handled nor a comment type changes no counter and no detail list.
C8_ReposAndFrame ==
    /\ [](pc = "summarized" =>
            summary.repos = {events[i].repo.name : i \in 1..Len(events)})
    /\ [][\A event \in {events[i] : i \in 1..Len(events)} :
            (/\ Processed(event)
             /\ event.type \notin {"PushEvent", "PullRequestEvent",
                                   "PullRequestReviewEvent", "IssuesEvent",
                                   "IssueCommentEvent", "CommitCommentEvent",
                                   "PullRequestReviewCommentEvent"})
            => /\ Counters(summary') = Counters(summary)
               /\ Details(summary') = Details(summary)
               /\ event.repo.name \in summary'.repos
       ]_vars

\* two events of unrecognized types on two repositories were summarized
C8_Witness ==
    /\ pc = "summarized"
    /\ Len(events) = 2
    /\ events[1].type = "WatchEvent"
    /\ events[2].type = "ForkEvent"
    /\ summary.repos = {RepoA, RepoB}
    /\ Counters(summary) = <<0, 0, 0, 0, 0, 0, 0>>

\* C9: an issues event 'opened' adds 1 to issues_opened only and appends
\* one issue_details record tagged 'opened'; 'closed' adds 1 to
\* issues_closed only and appends one record tagged 'closed'; any other
\* action changes no counter and no detail list, and the repository of the
\* event is in repos all the same.
C9_IssueActions ==
    [][\A event \in {events[i] : i \in 1..Len(events)} :
         (Processed(event) /\ event.type = "IssuesEvent") =>
            LET action == event.payload.action
                c == Counters(summary)
                d == Details(summary)
            IN /\ event.repo.name \in summary'.repos
               /\ action = "opened" =>
                     /\ Counters(summary') = [c EXCEPT ![5] = @ + 1]
                     /\ AppendedOne(d[3], summary'.issue_details, "opened")
                     /\ Details(summary') = [d EXCEPT ![3] = summary'.issue_details]
               /\ action = "closed" =>
                     /\ Counters(summary') = [c EXCEPT ![6] = @ + 1]
                     /\ AppendedOne(d[3], summary'.issue_details, "closed")
                     /\ Details(summary') = [d EXCEPT ![3] = summary'.issue_details]
               /\ action \notin {"opened", "closed"} =>
                     /\ Counters(summary') = c
                     /\ Details(summary') = d
      ]_vars

\* a reopened issue was processed first and left nothing but its repository,
\* then a closed issue was counted
C9_Witness ==
    /\ pc = "summarize_loop"
    /\ idx = 2
    /\ events[1].type = "IssuesEvent"
    /\ events[1].payload.action = "reopened"
    /\ events[2].type = "IssuesEvent"
    /\ events[2].payload.action = "closed"
    /\ summary.issues_closed = 1
    /\ summary.issues_opened = 0
    /\ Len(summary.issue_details) = 1
    /\ summary.issue_details[1].action = "closed"
    /\ events[1].repo.name \in summary.repos

(***************************************************************************)
(* Properties of get_user_events.                                          *)
(***************************************************************************)
FlatFeed == Flatten(feed)

IsOld(event) == strptime(event.created_at) < since_date

\* index of the first event older than the cutoff, Len(s) + 1 when there is none
FirstOld(s) ==
    IF \E i \in 1..Len(s) : IsOld(s[i])
    THEN CHOOSE i \in 1..Len(s) : IsOld(s[i]) /\ \A j \in 1..(i - 1) : ~IsOld(s[j])
    ELSE Len(s) + 1

BeforeFirstOld(s) == SubSeq(s, 1, FirstOld(s) - 1)

\* the pages the requests made so far have answered, in request order
Received == [i \in 1..Len(requests) |->
                make_request(feed, requests[i].page, requests[i].failed).json]

RequestedPages == [i \in 1..Len(requests) |-> requests[i].page]

NoRequestFailed == \A i \in 1..Len(requests) : ~requests[i].failed

\* C2: get_user_events returns exactly the events that precede the first
\* event older than the cutoff, in page-then-in-page order, whether or not
\* the feed is sorted: the pages received are a prefix of the feed, the
\* result is what they hold before their first old event (an event at the
\* cutoff is kept), and neither the first old event of the feed nor any
\* event after it, on its page or a later one, is returned.
C2_StopAtFirstOld ==
    pc = "fetched" =>
        /\ IsPrefix(Flatten(Received), FlatFeed)
        /\ events = BeforeFirstOld(Flatten(Received))
        /\ IsPrefix(events, BeforeFirstOld(FlatFeed))
        /\ (FirstOld(FlatFeed) <= Len(Flatten(Received))
                => events = BeforeFirstOld(FlatFeed))

\* page 3 starts with an old event followed by a newer one, later pages
\* exist, and the result is pages 1-2 only
C2_Witness ==
    /\ pc = "fetched"
    /\ Len(feed) >= 4
    /\ Len(feed[3]) = 2
    /\ IsOld(feed[3][1])
    /\ ~IsOld(feed[3][2])
    /\ events = feed[1] \o feed[2]
    /\ events # <<>>

\* C3: with more than 10 non-empty pages, every event at or after the
\* cutoff and no failing request, the result is pages 1..10 concatenated in
\* received order, and exactly pages 1..10 are requested (never page 11).
C3_PageCap ==
    (/\ pc = "fetched"
     /\ Len(feed) > 10
     /\ \A p \in 1..Len(feed) : feed[p] # <<>>
     /\ \A i \in 1..Len(FlatFeed) : ~IsOld(FlatFeed[i])
     /\ NoRequestFailed)
    => /\ events = Flatten(SubSeq(feed, 1, 10))
       /\ RequestedPages = [i \in 1..10 |-> i]

C3_Witness ==
    /\ pc = "fetched"
    /\ Len(feed) = 11
    /\ \A p \in 1..Len(feed) : Len(feed[p]) = MaxPageLen
    /\ NoRequestFailed
    /\ Len(events) = 10 * MaxPageLen
    /\ Len(requests) = 10

\* pages 1..k as the transport answers them
FeedPages(k) == [p \in 1..k |-> make_request(feed, p, FALSE).json]

\* the last request failed or was answered with an empty page
RequestFalsy(i) ==
    \/ requests[i].failed
    \/ requests[i].page > Len(feed)
    \/ feed[requests[i].page] = <<>>

\* C4: when the request for page k fails or returns an empty page,
\* get_user_events returns the concatenation of pages 1..k-1 as they were
\* accumulated before, page k is requested once and no page after it; while
\* the loop runs, events holds the pages before the current one.
C4_FailureTruncates ==
    /\ pc = "fetch" => /\ events = Flatten(FeedPages(page - 1))
                       /\ RequestedPages = [i \in 1..(page - 1) |-> i]
                       /\ \A i \in 1..Len(requests) : ~RequestFalsy(i)
    /\ \A i \in 1..Len(requests) :
          RequestFalsy(i) =>
             LET k == requests[i].page
             IN /\ pc = "fetched"
                /\ i = Len(requests)
                /\ k \in 1..10
                /\ events = Flatten(FeedPages(k - 1))
                /\ RequestedPages = [j \in 1..k |-> j]

\* the request for page 3 failed after two accepted pages
C4_Witness ==
    /\ pc = "fetched"
    /\ Len(requests) = 3
    /\ requests[3].failed
    /\ Len(feed) >= 3
    /\ feed[3] # <<>>
    /\ events = feed[1] \o feed[2]
    /\ Len(events) = 2 * MaxPageLen

(***************************************************************************)
(* Properties of generate_report and of the formatters.                    *)
(***************************************************************************)
Formatters == {"_format_markdown_report", "_format_text_report", "_format_html_report"}

\* C5: when get_user_events returns no event, generate_report returns the
\* one fixed sentence, whatever the output format, and neither
\* summarize_events nor a formatter is entered.
C5_NoActivityShortCircuit ==
    (pc = "done" /\ events = <<>>) =>
        /\ report = <<[kind |-> "text",
                       val |-> "No GitHub activity found for the specified period."]>>
        /\ "summarize_events" \notin called
        /\ called \cap Formatters = {}

\* an HTML report was asked for and every event of the feed was cut off
C5_Witness ==
    /\ pc = "done"
    /\ output_format = "html"
    /\ feed # <<>>
    /\ requests # <<>>
    /\ ~requests[1].failed
    /\ events = <<>>
    /\ report = NoActivity

\* the lines of a report of the given kind, in order
LinesOf(rep, kind) ==
    LET IsKind(line) == line.kind = kind
    IN SelectSeq(rep, IsKind)

HasHeading(rep, titles) ==
    \E i \in 1..Len(rep) : rep[i].kind = "heading" /\ rep[i].val \in titles

\* the records a report shows in its commits, pull-requests, issues and
\* code-reviews sections
SectionRecords(rep) ==
    <<LinesOf(rep, "commit"), LinesOf(rep, "item"), LinesOf(rep, "review")>>

\* C7: whichever of the three formats is asked for, the report has the
\* commits, pull-requests, issues and code-reviews section whenever the
\* detail list is not empty, with the records the markdown report shows, in
\* the same order.
C7_SameSectionsInAllFormats ==
    (pc = "done" /\ events # <<>>) =>
        /\ summary.commit_details # <<>> => HasHeading(report, {"Commits", "COMMITS"})
        /\ summary.pr_details # <<>> =>
              HasHeading(report, {"Pull Requests", "PULL REQUESTS"})
        /\ summary.issue_details # <<>> => HasHeading(report, {"Issues", "ISSUES"})
        /\ summary.review_details # <<>> =>
              HasHeading(report, {"Code Reviews", "CODE REVIEWS"})
        /\ SectionRecords(report)
             = SectionRecords(format_markdown_report(start_date, end_date,
                                                     summary, Company))

\* C10: in every format the report lists the repositories of the summary in
\* ascending code-point order, each exactly once.
C10_ReposSortedOnce ==
    (pc = "done" /\ events # <<>>) =>
        LET listed == LinesOf(report, "repo")
        IN /\ \A i \in 1..(Len(listed) - 1) : LexLess(listed[i].val, listed[i + 1].val)
           /\ {listed[i].val : i \in 1..Len(listed)} = summary.repos
           /\ Len(listed) = Cardinality(summary.repos)

\* an HTML report on three repositories lists "B" before "a" before "a/x"
C10_Witness ==
    /\ pc = "done"
    /\ output_format = "html"
    /\ summary.repos = {RepoAX, RepoA, RepoB}
    /\ LinesOf(report, "repo") = <<Line("repo", RepoB), Line("repo", RepoA),
                                   Line("repo", RepoAX)>>

(***************************************************************************)
(* Properties of calculate_days.                                           *)
(***************************************************************************)
\* C11: calculate_days returns the explicit day count whenever --days is
\* supplied, whatever its integer value and with or without --period;
\* otherwise 1, 3, 7, 14 or 30 for day, 3days, week, 2weeks, month; and 7
\* when neither is supplied.
C11_ExplicitDaysOverride ==
    pc = "main_days" =>
        days_back =
            IF args.days # <<>> THEN args.days[2]
            ELSE CASE args.period = "day" -> 1
                   [] args.period = "3days" -> 3
                   [] args.period = "week" -> 7
                   [] args.period = "2weeks" -> 14
                   [] args.period = "month" -> 30
                   [] OTHER -> 7

(***************************************************************************)
(* Properties of the markdown report.                                      *)
(***************************************************************************)
SectionTitles == {"Commits", "Pull Requests", "Issues", "Code Reviews"}

\* the section headings of a report, in order
SectionsOf(rep) ==
    LET IsSection(line) == line.kind = "heading" /\ line.val \in SectionTitles
        found == SelectSeq(rep, IsSection)
    IN [i \in 1..Len(found) |-> found[i].val]

\* the titles of the sections whose detail list is not empty, in the fixed order
ExpectedSections(s) ==
    (IF s.commit_details # <<>> THEN <<"Commits">> ELSE <<>>)
    \o (IF s.pr_details # <<>> THEN <<"Pull Requests">> ELSE <<>>)
    \o (IF s.issue_details # <<>> THEN <<"Issues">> ELSE <<>>)
    \o (IF s.review_details # <<>> THEN <<"Code Reviews">> ELSE <<>>)

\* the events are a push of 2 commits on a/x, PR #5 opened on a/y and issue
\* #9 closed on a/x
Scenario ==
    /\ Len(events) = 3
    /\ events[1].type = "PushEvent"
    /\ events[1].repo.name = <<97, 47, 120>>
    /\ Len(events[1].payload.commits) = 2
    /\ events[2].type = "PullRequestEvent"
    /\ events[2].repo.name = <<97, 47, 121>>
    /\ events[2].payload.action = "opened"
    /\ events[2].payload.item.number = <<"int", 5>>
    /\ events[3].type = "IssuesEvent"
    /\ events[3].repo.name = <<97, 47, 120>>
    /\ events[3].payload.action = "closed"
    /\ events[3].payload.item.number = <<"int", 9>>

\* the position of the only line of a kind (0 when there is not exactly one)
OnlyLine(rep, kind) ==
    IF Cardinality({i \in 1..Len(rep) : rep[i].kind = kind}) = 1
    THEN CHOOSE i \in 1..Len(rep) : rep[i].kind = kind
    ELSE 0

HeadingAt(rep, title) ==
    IF \E i \in 1..Len(rep) : rep[i] = [kind |-> "heading", val |-> title]
    THEN CHOOSE i \in 1..Len(rep) : rep[i] = [kind |-> "heading", val |-> title]
    ELSE 0

\* C12: the markdown report has the sections Commits, Pull Requests, Issues,
\* Code Reviews in that order, each present exactly when its detail list is
\* not empty; for the push / PR-opened / issue-closed scenario the summary
\* is commits=2, pull_requests_opened=1, issues_closed=1, the rest 0, repos
\* {a/x, a/y}, and the report has Commits (under a/x), then Pull Requests
\* (one opened entry for #5), then Issues (one closed entry for #9), and no
\* Code Reviews.
C12_MarkdownSections ==
    (pc = "done" /\ events # <<>> /\ output_format = "markdown") =>
        /\ SectionsOf(report) = ExpectedSections(summary)
        /\ Scenario =>
              /\ Counters(summary) = <<2, 1, 0, 0, 0, 1, 0>>
              /\ summary.repos = {<<97, 47, 120>>, <<97, 47, 121>>}
              /\ SectionsOf(report) = <<"Commits", "Pull Requests", "Issues">>
              /\ LinesOf(report, "subheading") = <<[kind |-> "subheading",
                                                    val |-> <<97, 47, 120>>]>>
              /\ Len(LinesOf(report, "commit")) = 2
              /\ HeadingAt(report, "Commits") < OnlyLine(report, "subheading")
              /\ OnlyLine(report, "subheading") < HeadingAt(report, "Pull Requests")
              /\ Len(LinesOf(report, "item")) = 2
              /\ LET pr == LinesOf(report, "item")[1].val
                     issue == LinesOf(report, "item")[2].val
                 IN \* "Opened" and "Closed"
                    /\ <<pr[2], pr[3], pr[4]>>
                         = <<<<79, 112, 101, 110, 101, 100>>, "PR", <<"int", 5>>>>
                    /\ <<issue[2], issue[3], issue[4]>>
                         = <<<<67, 108, 111, 115, 101, 100>>, "Issue", <<"int", 9>>>>
              /\ \E i \in 1..Len(report) :
                    /\ report[i].kind = "item"
                    /\ report[i].val[3] = "PR"
                    /\ HeadingAt(report, "Pull Requests") < i
                    /\ i < HeadingAt(report, "Issues")
              /\ \E i \in 1..Len(report) :
                    /\ report[i].kind = "item"
                    /\ report[i].val[3] = "Issue"
                    /\ HeadingAt(report, "Issues") < i

\* the scenario has been reported in markdown
C12_Witness ==
    /\ pc = "done"
    /\ output_format = "markdown"
    /\ Scenario
    /\ SectionsOf(report) = <<"Commits", "Pull Requests", "Issues">>

\* the commit details of a repository, in the order of commit_details
DetailsOfRepo(commit_details, repo) ==
    LET Of(d) == d.repo = repo
    IN SelectSeq(commit_details, Of)

\* C13: the commits section of the markdown report names the repositories
\* that have a commit detail in ascending order, each once, and shows under
\* each the first min(20, n) of its n commit details in the order of
\* commit_details; the Total Commits counter counts them all.
C13_CommitsSection ==
    (pc = "done" /\ events # <<>> /\ output_format = "markdown") =>
        LET IsCommitLine(line) == line.kind \in {"subheading", "commit"}
            section == SelectSeq(report, IsCommitLine)
            heads == {i \in 1..Len(section) : section[i].kind = "subheading"}
            details == summary.commit_details
        IN /\ \A i, j \in heads : i < j => LexLess(section[i].val, section[j].val)
           /\ {section[i].val : i \in heads} = {details[k].repo : k \in 1..Len(details)}
           /\ section # <<>> => 1 \in heads
           /\ \A i \in heads :
                 LET of == DetailsOfRepo(details, section[i].val)
                     n == IF Len(of) < 20 THEN Len(of) ELSE 20
                 IN /\ n >= 1
                    /\ i + n <= Len(section)
                    /\ \A k \in 1..n :
                          section[i + k] =
                             [kind |-> "commit",
                              val |-> <<of[k].sha, of[k].message,
                                        FormatMonthDayMinute(strptime(of[k].timestamp))>>]
                    /\ (i + n = Len(section) \/ (i + n + 1) \in heads)
           /\ \E i \in 1..Len(report) :
                 report[i] = [kind |-> "metric",
                              val |-> <<"Total Commits", Len(details)>>]

\* 21 commits on a/x and one on a/y: 20 and 1 are shown, 22 are counted
C13_Witness ==
    /\ pc = "done"
    /\ output_format = "markdown"
    /\ summary.commits = 22
    /\ Len(DetailsOfRepo(summary.commit_details, RepoAX)) = 21
    /\ Len(LinesOf(report, "commit")) = 21
    /\ LinesOf(report, "subheading") = <<Line("subheading", RepoAX),
                                         Line("subheading", RepoAY)>>

(***************************************************************************)
(* Order and content of the detail lists.                                  *)
(***************************************************************************)
CommitCount(event) ==
    IF event.type = "PushEvent" THEN Len(event.payload.commits) ELSE 0

PrCount(event) ==
    IF /\ event.type = "PullRequestEvent"
       /\ \/ event.payload.action = "opened"
          \/ event.payload.action = "closed" /\ event.payload.item.merged = "True"
    THEN 1 ELSE 0

IssueCount(event) ==
    IF event.type = "IssuesEvent" /\ event.payload.action \in {"opened", "closed"}
    THEN 1 ELSE 0

ReviewCount(event) == IF event.type = "PullRequestReviewEvent" THEN 1 ELSE 0

\* the created_at of the first n events, each repeated Count(event) times
StampsOfEvents(Count(_), n) ==
    Flatten([i \in 1..n |-> [k \in 1..Count(events[i]) |-> events[i].created_at]])

StampsOfDetails(details) == [k \in 1..Len(details) |-> details[k].timestamp]

\* the text before the first line break
FirstLineOf(message) ==
    CHOOSE line \in {SubSeq(message, 1, k) : k \in 0..Len(message)} :
        /\ \A i \in 1..Len(line) : line[i] # 10
        /\ Len(line) = Len(message) \/ message[Len(line) + 1] = 10

\* the commit records of the first n events
CommitRecordsOfEvents(n) ==
    Flatten([i \in 1..n |->
        IF events[i].type = "PushEvent"
        THEN [k \in 1..Len(events[i].payload.commits) |->
                LET commit == events[i].payload.commits[k]
                IN [repo |-> events[i].repo.name,
                    sha |-> SubSeq(commit.sha, 1,
                                   IF Len(commit.sha) < 7 THEN Len(commit.sha) ELSE 7),
                    message |-> FirstLineOf(commit.message),
                    timestamp |-> events[i].created_at]]
        ELSE <<>>])

\* C14: every detail list keeps the order of the input events: the records
\* of an earlier event precede those of a later one; a push of n commits
\* gives n consecutive commit records in payload order, each with the
\* repository of the event, the first 7 characters of the hash, the first
\* line of the message and the created_at of the push event.
C14_DetailsKeepInputOrder ==
    /\ summary.commit_details = CommitRecordsOfEvents(idx)
    /\ StampsOfDetails(summary.commit_details) = StampsOfEvents(CommitCount, idx)
    /\ StampsOfDetails(summary.pr_details) = StampsOfEvents(PrCount, idx)
    /\ StampsOfDetails(summary.issue_details) = StampsOfEvents(IssueCount, idx)
    /\ StampsOfDetails(summary.review_details) = StampsOfEvents(ReviewCount, idx)

\* a push of two commits on a/x, then a push of one commit on a/y
C14_Witness ==
    /\ pc = "summarized"
    /\ Len(events) = 2
    /\ CommitCount(events[1]) = 2
    /\ CommitCount(events[2]) = 1
    /\ Len(summary.commit_details) = 3
    /\ summary.commit_details[1] =
          [repo |-> RepoAX, sha |-> <<1, 2, 3, 4, 5, 6, 7>>,
           message |-> <<102, 105, 120>>, timestamp |-> events[1].created_at]
    /\ summary.commit_details[2].sha = <<9, 8, 7, 6, 5, 4, 3>>
    /\ summary.commit_details[3].repo = RepoAY
    /\ summary.commit_details[3].timestamp = events[2].created_at
    /\ events[1].created_at # events[2].created_at

(***************************************************************************)
(* Progress of the page loop.                                              *)
(***************************************************************************)
\* the i-th request succeeded on a page below the cap that is not empty and
\* holds no event older than the cutoff
PageAccepted(i) ==
    /\ i < 10
    /\ ~requests[i].failed
    /\ requests[i].page <= Len(feed)
    /\ feed[requests[i].page] # <<>>
    /\ \A k \in 1..Len(feed[requests[i].page]) : ~IsOld(feed[requests[i].page][k])

\* C15: get_user_events terminates after at most 10 page requests; the
\* pages requested are 1, 2, ..., n in this order, each once; page p + 1 is
\* requested exactly when p < 10 and page p succeeded, was not empty and
\* held no event older than the cutoff (so an accepted page shorter than the
\* page size does not end paging).
C15_PagingTerminates ==
    /\ [](/\ Len(requests) <= 10
          /\ RequestedPages = [i \in 1..Len(requests) |-> i]
          /\ \A i \in 1..(Len(requests) - 1) : PageAccepted(i)
          /\ (pc = "fetched" /\ requests # <<>>) => ~PageAccepted(Len(requests)))
    /\ <>(pc = "fetched")

\* page 2 holds a single event, inside the window, and page 3 was requested
C15_Witness ==
    /\ pc = "fetched"
    /\ Len(feed) >= 3
    /\ Len(feed[2]) = 1
    /\ Len(feed[2]) < Len(feed[1])
    /\ ~IsOld(feed[2][1])
    /\ Len(requests) >= 3
    /\ \A i \in 1..2 : ~requests[i].failed
    /\ requests[3].page = 3

(***************************************************************************)
(* The window of the report and the cutoff of the fetch.                   *)
(***************************************************************************)
\* C16: the window of generate_report comes from one read of the clock and
\* the cutoff of get_user_events from a later one; with a clock that does
\* not go backwards the cutoff is not before start_date, so no event that
\* reaches summarize_events is older than the start_date of the report
\* header (events between start_date and the cutoff may be left out).
C16_EventsInsideWindow ==
    /\ pc \notin {"generate_report", "get_user_events"} =>
          /\ start_date = end_date - days_back * 86400
          /\ since_date >= start_date
    /\ pc \in {"summarize_events", "summarize_loop", "summarized", "done"} =>
          \A i \in 1..Len(events) :
             events[i].created_at[1] * 86400 + events[i].created_at[2] >= start_date

\* the clock advanced between the two reads: the last event of the page is
\* at start_date, before the cutoff, and is left out of a report that was
\* made of the events before it
C16_Witness ==
    /\ pc = "done"
    /\ since_date > start_date
    /\ Len(feed) = 1
    /\ Len(feed[1]) >= 2
    /\ strptime(feed[1][Len(feed[1])].created_at) = start_date
    /\ Len(events) = Len(feed[1]) - 1
    /\ report # NoActivity
    /\ "summarize_events" \in called

====
